---------------------------- MODULE Spec2Model ----------------------------
(***************************************************************************)
(* Signature carving of JPEG and RW2 images out of a raw byte stream.      *)
(*                                                                         *)
(* src/src/main.rs  : the chunked, streaming engine (read a chunk, append  *)
(*                    it to the working buffer, carve files off its front) *)
(* src/src/main2.rs : the read-everything-then-scan engine                 *)
(*                                                                         *)
(* Buffers are sequences of byte values.  The source indexes from 0, so    *)
(* every index below is 0-based and Slice/split_off convert to the 1-based *)
(* sequences of TLA+.  Option<usize> is modelled as a sequence of length   *)
(* at most one: None == << >>, Some(i) == <<i>>.                            *)
(***************************************************************************)
EXTENDS Integers, Sequences, FiniteSets, TLC

(***************************************************************************)
(* Bounds of the model.                                                    *)
(***************************************************************************)
\* A device image is the concatenation of at most MaxTokens tokens.
MaxTokens == 4
\* The same, for the images that are scanned twice (SpecRerun).
MaxRerunTokens == 3
\* The same, for the images whose scan is followed to its end (SpecLive).
MaxLiveTokens == 3

(***************************************************************************)
(* Constants of the program.                                               *)
(***************************************************************************)
JPEG_START == <<255, 216>>
JPEG_END == <<255, 217>>
RW2_START == <<73, 73, 42, 0>>
READ_BLOCK_SIZE == 512 * 1024
OUTPUT_DIR == "recovered"
FileType == {"Jpeg", "Rw2"}

None == << >>
Some(x) == <<x>>

(***************************************************************************)
(* Slices of a Vec<u8>, 0-based and half-open like the source's ranges.    *)
(***************************************************************************)
\* &buffer[a..b]
Slice(buffer, a, b) == SubSeq(buffer, a + 1, b)

\* buffer.split_off(at): the bytes from index at on
split_off(buffer, at) == SubSeq(buffer, at + 1, Len(buffer))

\* a.saturating_sub(b) on usize
saturating_sub(a, b) == IF a >= b THEN a - b ELSE 0

\* window == signature for the window of buffer that starts at index i
WindowEq(buffer, signature, i) ==
    /\ i >= 0
    /\ i + Len(signature) <= Len(buffer)
    /\ \A k \in 1..Len(signature) : buffer[i + k] = signature[k]

(***************************************************************************)
(* find_signature: buffer.windows(len).position(|w| w == signature).  The  *)
(* windows are visited from index 0 upwards and the first match wins; a    *)
(* buffer shorter than the signature has no window.                        *)
(***************************************************************************)
RECURSIVE position(_, _, _)
position(buffer, signature, i) ==
    IF i + Len(signature) > Len(buffer) THEN None
    ELSE IF WindowEq(buffer, signature, i) THEN Some(i)
    ELSE position(buffer, signature, i + 1)

\* A search that skips the window at index 0.
find_signature_skip_first(buffer, signature) == position(buffer, signature, 1)

find_signature(buffer, signature) == position(buffer, signature, 0)

(***************************************************************************)
(* results.sort_by_key(|k| k.0): a stable sort, as an insertion sort.      *)
(***************************************************************************)
RECURSIVE insert_by_key(_, _)
insert_by_key(sorted, c) ==
    IF sorted = << >> THEN <<c>>
    ELSE IF sorted[Len(sorted)][1] <= c[1] THEN Append(sorted, c)
    ELSE Append(insert_by_key(SubSeq(sorted, 1, Len(sorted) - 1), c),
                sorted[Len(sorted)])

RECURSIVE sort_by_key(_)
sort_by_key(results) ==
    IF results = << >> THEN << >>
    ELSE insert_by_key(sort_by_key(SubSeq(results, 1, Len(results) - 1)),
                       results[Len(results)])

\* The candidates in push order (Jpeg, then Rw2), before the sort.
PushStarts(buffer) ==
    LET j == find_signature(buffer, JPEG_START)
        r == find_signature(buffer, RW2_START)
    IN  (IF j # None THEN << <<j[1], "Jpeg">> >> ELSE << >>)
        \o (IF r # None THEN << <<r[1], "Rw2">> >> ELSE << >>)

\* find_all_starts without the sort.
find_all_starts_unsorted(buffer) == PushStarts(buffer)

find_all_starts(buffer) == sort_by_key(PushStarts(buffer))

(***************************************************************************)
(* save_file: the file name and the blob handed to the sink.               *)
(***************************************************************************)
RECURSIVE Digits(_)
Digits(n) == IF n < 10 THEN <<n>> ELSE Append(Digits(n \div 10), n % 10)

\* format!("{:06}", n): at least six digits, zero-padded on the left
ZeroPad6(n) ==
    LET d == Digits(n)
    IN  IF Len(d) >= 6 THEN d ELSE [i \in 1..(6 - Len(d)) |-> 0] \o d

Ext(file_type) == IF file_type = "Jpeg" THEN "jpg" ELSE "rw2"

\* format!("{}/image_{:06}.{}", OUTPUT_DIR, counter, ext)
FileName(counter, file_type) ==
    [dir |-> OUTPUT_DIR, seq |-> ZeroPad6(counter), ext |-> Ext(file_type)]

\* save_file(data, counter, file_type): what the sink is asked to persist.
\* written is the outcome of File::create / write_all, which save_file only
\* reports; offset is where data starts in the device image.
save_file(data, counter, file_type, written, offset) ==
    [name |-> FileName(counter, file_type), data |-> data,
     file_type |-> file_type, counter |-> counter,
     written |-> written, offset |-> offset]

(***************************************************************************)
(* Device images.  An image is a concatenation of at most MaxTokens        *)
(* tokens: the three signatures and the single bytes they are made of.     *)
(***************************************************************************)
Tokens == {JPEG_START, JPEG_END, RW2_START, <<255>>, <<73>>, <<0>>}

RECURSIVE Concat(_)
Concat(ts) == IF ts = << >> THEN << >> ELSE ts[1] \o Concat(Tail(ts))

StreamsUpTo(max) ==
    {Concat(ts) : ts \in UNION {[1..n -> Tokens] : n \in 0..max}}

Streams == StreamsUpTo(MaxTokens)

(***************************************************************************)
(* State.                                                                  *)
(***************************************************************************)
VARIABLES
    stream,      \* the bytes of the device, DEVICE_PATH
    pos,         \* how many of them file.read has returned
    buffer,      \* main.rs: let mut buffer
    counter,     \* main.rs: let mut counter
    files,       \* the save_file calls made so far, in order
    pc,          \* "Reading", "Scanning" (the inner loop) or "Done"
    readErr,     \* file.read returned Err
    branch,      \* the branch of the loop body taken last
    chunked,     \* some read returned less than the whole image
    run,         \* 1 for the first scan of the image, 2 for a re-run
    prevFiles,   \* in a re-run: the files of the first scan
    prevChunked, \* in a re-run: chunked, as the first scan left it
    arg_buffer,  \* SpecFn: the buffer the pure functions are applied to
    arg_signature, \* SpecFn: the pattern given to find_signature
    ret_find,    \* SpecFn: what find_signature returned
    ret_starts   \* SpecFn: what find_all_starts returned

engine == <<stream, pos, buffer, counter, files, pc, readErr, branch, chunked>>
rerun == <<run, prevFiles, prevChunked>>
fn == <<arg_buffer, arg_signature, ret_find, ret_starts>>
vars == <<stream, pos, buffer, counter, files, pc, readErr, branch, chunked,
          run, prevFiles, prevChunked, arg_buffer, arg_signature, ret_find, ret_starts>>

NotCalled == "NotCalled"

\* A scan whose counter starts at 1.
EngineInitCountsFromOne ==
    /\ pos = 0
    /\ buffer = << >>
    /\ counter = 1
    /\ files = << >>
    /\ pc = "Reading"
    /\ readErr = FALSE
    /\ branch = "start"
    /\ chunked = FALSE
    /\ run = 1
    /\ prevFiles = << >>
    /\ prevChunked = FALSE

EngineInit ==
    /\ pos = 0
    /\ buffer = << >>
    /\ counter = 0
    /\ files = << >>
    /\ pc = "Reading"
    /\ readErr = FALSE
    /\ branch = "start"
    /\ chunked = FALSE
    /\ run = 1
    /\ prevFiles = << >>
    /\ prevChunked = FALSE

FnIdle ==
    /\ arg_signature = << >>
    /\ ret_find = NotCalled
    /\ ret_starts = NotCalled

Init ==
    /\ stream \in Streams
    /\ EngineInit
    /\ arg_buffer = << >>
    /\ FnIdle

Min(a, b) == IF a <= b THEN a ELSE b

\* Offset in the device image of buffer[0].
Base == pos - Len(buffer)

(***************************************************************************)
(* main.rs 42-49: one file.read(&mut temp).                                *)
(***************************************************************************)
\* Ok(n), n > 0: n is at most temp.len() and at most what the device has left
ReadChunk ==
    /\ pc = "Reading"
    /\ \E n \in 1..Min(READ_BLOCK_SIZE, Len(stream) - pos) :
          /\ buffer' = buffer \o Slice(stream, pos, pos + n)
          /\ pos' = pos + n
          /\ chunked' = (chunked \/ n < Len(stream))
    /\ pc' = "Scanning"
    /\ branch' = "read"
    /\ UNCHANGED <<stream, counter, files, readErr, rerun, fn>>

\* Ok(0) => break
ReadEof ==
    /\ pc = "Reading"
    /\ pos = Len(stream)
    /\ pc' = "Done"
    /\ branch' = "eof"
    /\ UNCHANGED <<stream, pos, buffer, counter, files, readErr, chunked, rerun, fn>>

\* A read error after which the scan of the buffer goes on.
ReadErrorScans ==
    /\ pc = "Reading"
    /\ readErr = FALSE
    /\ readErr' = TRUE
    /\ pc' = "Scanning"
    /\ branch' = "err"
    /\ UNCHANGED <<stream, pos, buffer, counter, files, chunked, rerun, fn>>

\* Err(e) => break
ReadError ==
    /\ pc = "Reading"
    /\ readErr' = TRUE
    /\ pc' = "Done"
    /\ branch' = "err"
    /\ UNCHANGED <<stream, pos, buffer, counter, files, chunked, rerun, fn>>

(***************************************************************************)
(* main.rs 51-88: one iteration of the inner loop.  start_idx and the end  *)
(* index are bound once (\E s \in {start_idx}), as the locals they are.    *)
(***************************************************************************)
candidates == find_all_starts(buffer)
start_idx == candidates[1][1]
file_type == candidates[1][2]

\* A tail that is twice as long.
tail_start_long(buf) == saturating_sub(Len(buf), 2 * Len(RW2_START))

\* A tail that keeps nothing.
tail_start_none(buf) == Len(buf)

\* A tail as long as the shorter start signature.
tail_start_jpeg(buf) == saturating_sub(Len(buf), Len(JPEG_START))

\* main.rs 56: buffer.len().saturating_sub(RW2_START.len())
tail_start(buf) == saturating_sub(Len(buf), Len(RW2_START))

\* A buffer without candidates that is cut but scanned again.
NoCandidateContinues ==
    /\ pc = "Scanning"
    /\ candidates = << >>
    /\ buffer' = split_off(buffer, tail_start(buffer))
    /\ branch' = "none"
    /\ UNCHANGED <<stream, pos, counter, files, pc, readErr, chunked, rerun, fn>>

\* main.rs 54-58: no start signature in the buffer
NoCandidate ==
    /\ pc = "Scanning"
    /\ candidates = << >>
    /\ buffer' = split_off(buffer, tail_start(buffer))
    /\ pc' = "Reading"
    /\ branch' = "none"
    /\ UNCHANGED <<stream, pos, counter, files, readErr, chunked, rerun, fn>>

\* A counter that counts the files written, not the save_file calls.
next_counter_on_success(c, written) == IF written THEN c + 1 ELSE c

\* main.rs 68, 85: counter += 1, whatever save_file reported
next_counter(c, written) == c + 1

\* An end marker looked for behind four bytes, the length of the other
\* start signature.
jpeg_end_offset_skips(buf, s) ==
    find_signature(split_off(buf, s + Len(RW2_START)), JPEG_END)

\* main.rs 64: where the Jpeg end marker is looked for
jpeg_end_offset(buf, s) ==
    find_signature(split_off(buf, s + Len(JPEG_START)), JPEG_END)

\* An end index that stops before the end marker.
jpeg_end_idx_short(s, offset) == s + Len(JPEG_START) + offset

\* main.rs 66
jpeg_end_idx(s, offset) == s + Len(JPEG_START) + offset + Len(JPEG_END)

\* A Jpeg after which the buffer only drops the start marker.
JpegFoundRescans ==
    /\ pc = "Scanning"
    /\ candidates # << >>
    /\ file_type = "Jpeg"
    /\ jpeg_end_offset(buffer, start_idx) # None
    /\ \E s \in {start_idx} :
       \E end_idx \in {jpeg_end_idx(s, jpeg_end_offset(buffer, s)[1])} :
          /\ \E written \in BOOLEAN :
                /\ files' = Append(files,
                      save_file(Slice(buffer, s, end_idx), counter,
                                file_type, written, Base + s))
                /\ counter' = next_counter(counter, written)
          /\ buffer' = split_off(buffer, s + Len(JPEG_START))
    /\ branch' = "jpeg_found"
    /\ UNCHANGED <<stream, pos, pc, readErr, chunked, rerun, fn>>

\* main.rs 65-70: Jpeg, end marker found
JpegFound ==
    /\ pc = "Scanning"
    /\ candidates # << >>
    /\ file_type = "Jpeg"
    /\ jpeg_end_offset(buffer, start_idx) # None
    /\ \E s \in {start_idx} :
       \E end_idx \in {jpeg_end_idx(s, jpeg_end_offset(buffer, s)[1])} :
          /\ \E written \in BOOLEAN :
                /\ files' = Append(files,
                      save_file(Slice(buffer, s, end_idx), counter,
                                file_type, written, Base + s))
                /\ counter' = next_counter(counter, written)
          /\ buffer' = split_off(buffer, end_idx)
    /\ branch' = "jpeg_found"
    /\ UNCHANGED <<stream, pos, pc, readErr, chunked, rerun, fn>>

\* An open Jpeg that is flushed to the end of the buffer, as an Rw2 is.
JpegNotFoundFlushes ==
    /\ pc = "Scanning"
    /\ candidates # << >>
    /\ file_type = "Jpeg"
    /\ jpeg_end_offset(buffer, start_idx) = None
    /\ \E s \in {start_idx} : \E written \in BOOLEAN :
          /\ files' = Append(files,
                save_file(split_off(buffer, s), counter, file_type,
                          written, Base + s))
          /\ counter' = next_counter(counter, written)
    /\ buffer' = << >>
    /\ pc' = "Reading"
    /\ branch' = "jpeg_open"
    /\ UNCHANGED <<stream, pos, readErr, chunked, rerun, fn>>

\* An open Jpeg whose buffer is left as it is.
JpegNotFoundKeepsAll ==
    /\ pc = "Scanning"
    /\ candidates # << >>
    /\ file_type = "Jpeg"
    /\ jpeg_end_offset(buffer, start_idx) = None
    /\ buffer' = buffer
    /\ pc' = "Reading"
    /\ branch' = "jpeg_open"
    /\ UNCHANGED <<stream, pos, counter, files, readErr, chunked, rerun, fn>>

\* An open Jpeg whose start marker is dropped with the bytes before it.
JpegNotFoundDropsStart ==
    /\ pc = "Scanning"
    /\ candidates # << >>
    /\ file_type = "Jpeg"
    /\ jpeg_end_offset(buffer, start_idx) = None
    /\ \E s \in {start_idx} : buffer' = split_off(buffer, s + Len(JPEG_START))
    /\ pc' = "Reading"
    /\ branch' = "jpeg_open"
    /\ UNCHANGED <<stream, pos, counter, files, readErr, chunked, rerun, fn>>

\* main.rs 71-74: Jpeg, no end marker yet
JpegNotFound ==
    /\ pc = "Scanning"
    /\ candidates # << >>
    /\ file_type = "Jpeg"
    /\ jpeg_end_offset(buffer, start_idx) = None
    /\ \E s \in {start_idx} : buffer' = split_off(buffer, s)
    /\ pc' = "Reading"
    /\ branch' = "jpeg_open"
    /\ UNCHANGED <<stream, pos, counter, files, readErr, chunked, rerun, fn>>

\* An end index that forgets where the sub-slice started.
rw2_end_idx_unshifted(buf, s) ==
    LET next_candidates == find_all_starts(split_off(buf, s + 4))
    IN  IF next_candidates # << >> THEN next_candidates[1][1] ELSE Len(buf)

\* An Rw2 that holds back a possible partial signature instead of flushing.
rw2_end_idx_keeps_tail(buf, s) ==
    LET next_candidates == find_all_starts(split_off(buf, s + 4))
    IN  IF next_candidates # << >>
        THEN s + 4 + next_candidates[1][1]
        ELSE IF Len(buf) - 3 >= s + 4 THEN Len(buf) - 3 ELSE Len(buf)

\* An Rw2 that is only delimited by the next Jpeg start.
rw2_end_idx_jpeg_only(buf, s) ==
    LET next_jpeg == find_signature(split_off(buf, s + 4), JPEG_START)
    IN  IF next_jpeg # None THEN s + 4 + next_jpeg[1] ELSE Len(buf)

\* main.rs 79-83
rw2_end_idx(buf, s) ==
    LET next_candidates == find_all_starts(split_off(buf, s + 4))
    IN  IF next_candidates # << >>
        THEN s + 4 + next_candidates[1][1]
        ELSE Len(buf)

\* main.rs 78-87: Rw2, up to the next start signature or the end of the buffer
Rw2Emit ==
    /\ pc = "Scanning"
    /\ candidates # << >>
    /\ file_type # "Jpeg"
    /\ \E s \in {start_idx} : \E end_idx \in {rw2_end_idx(buffer, s)} :
          /\ \E written \in BOOLEAN :
                /\ files' = Append(files,
                      save_file(Slice(buffer, s, end_idx), counter,
                                file_type, written, Base + s))
                /\ counter' = next_counter(counter, written)
          /\ buffer' = split_off(buffer, end_idx)
          /\ branch' = IF find_all_starts(split_off(buffer, s + 4)) = << >>
                       THEN "rw2_flush" ELSE "rw2_next"
    /\ UNCHANGED <<stream, pos, pc, readErr, chunked, rerun, fn>>

Next ==
    \/ ReadChunk
    \/ ReadEof
    \/ ReadError
    \/ NoCandidate
    \/ JpegFound
    \/ JpegNotFound
    \/ Rw2Emit

Spec == Init /\ [][Next]_vars

InitLive ==
    /\ stream \in StreamsUpTo(MaxLiveTokens)
    /\ EngineInit
    /\ arg_buffer = << >>
    /\ FnIdle

\* The program runs on: a step that can be taken is taken.
SpecLive == InitLive /\ [][Next]_vars /\ WF_vars(Next)

(***************************************************************************)
(* main.rs 51-88 run to the end on one buffer: the save_file calls of a    *)
(* whole Scanning pass over buf, with the counter at c.                    *)
(***************************************************************************)
RECURSIVE ScanPass(_, _)
ScanPass(buf, c) ==
    LET cs == find_all_starts(buf)
    IN  IF cs = << >> THEN << >>
        ELSE LET s == cs[1][1]
             IN  IF cs[1][2] = "Jpeg"
                 THEN IF jpeg_end_offset(buf, s) = None THEN << >>
                      ELSE LET e == jpeg_end_idx(s, jpeg_end_offset(buf, s)[1])
                           IN  <<[data |-> Slice(buf, s, e), file_type |-> "Jpeg",
                                  counter |-> c]>>
                               \o ScanPass(split_off(buf, e), c + 1)
                 ELSE LET e == rw2_end_idx(buf, s)
                      IN  <<[data |-> Slice(buf, s, e), file_type |-> "Rw2",
                             counter |-> c]>>
                          \o ScanPass(split_off(buf, e), c + 1)

(***************************************************************************)
(* A second scan of the same image: main starts again with an empty        *)
(* buffer and counter 0 (main.rs 27-39).  What the first scan emitted is   *)
(* kept in prevFiles, to compare the two.                                  *)
(***************************************************************************)
\* What a save_file call carries: bytes, format tag and sequence number.
Emitted(fs) ==
    [i \in 1..Len(fs) |->
        [data |-> fs[i].data, file_type |-> fs[i].file_type,
         counter |-> fs[i].counter]]

Rerun ==
    /\ pc = "Done"
    /\ run = 1
    /\ readErr = FALSE
    /\ run' = 2
    /\ prevFiles' = Emitted(files)
    /\ prevChunked' = chunked
    /\ pos' = 0
    /\ buffer' = << >>
    /\ counter' = 0
    /\ files' = << >>
    /\ pc' = "Reading"
    /\ branch' = "start"
    /\ chunked' = FALSE
    /\ UNCHANGED <<stream, readErr, fn>>

NextRerun ==
    \/ Next
    \/ Rerun

InitRerun ==
    /\ stream \in StreamsUpTo(MaxRerunTokens)
    /\ EngineInit
    /\ arg_buffer = << >>
    /\ FnIdle

SpecRerun == InitRerun /\ [][NextRerun]_vars

(***************************************************************************)
(* main2.rs: read everything, then scan the buffer byte by byte.           *)
(***************************************************************************)
\* slice.starts_with(prefix)
starts_with(buf, prefix) == WindowEq(buf, prefix, 0)

\* main2.rs 76-84
match_start(buf) ==
    IF Len(buf) >= Len(JPEG_START) /\ starts_with(buf, JPEG_START)
    THEN Some("Jpeg")
    ELSE IF Len(buf) >= Len(RW2_START) /\ starts_with(buf, RW2_START)
    THEN Some("Rw2")
    ELSE None

\* main2.rs 86-93
RECURSIVE find_next_start_from(_, _)
find_next_start_from(buf, i) ==
    IF i >= Len(buf) THEN None
    ELSE IF starts_with(split_off(buf, i), JPEG_START)
            \/ starts_with(split_off(buf, i), RW2_START)
    THEN Some(i)
    ELSE find_next_start_from(buf, i + 1)

find_next_start(buf) == find_next_start_from(buf, 0)

\* main2.rs 54-69: the while loop, from position p with counter c
RECURSIVE main2_scan(_, _, _)
main2_scan(buf, p, c) ==
    IF p >= Len(buf) THEN << >>
    ELSE IF match_start(split_off(buf, p)) # None
    THEN LET next_start == find_next_start(split_off(buf, p + 1))
             end == IF next_start # None THEN p + 1 + next_start[1] ELSE Len(buf)
         IN  <<[data |-> Slice(buf, p, end),
                file_type |-> match_start(split_off(buf, p))[1],
                counter |-> c]>>
             \o main2_scan(buf, end, c + 1)
    ELSE main2_scan(buf, p + 1, c)

\* main2.rs 42-69: what main2 emits for a device image read without error
main2(image) == main2_scan(image, 0, 0)

(***************************************************************************)
(* The pure functions on their own: a buffer is drawn, and find_signature  *)
(* and find_all_starts are applied to it.                                  *)
(***************************************************************************)
Signatures == {JPEG_START, JPEG_END, RW2_START}

InitFn ==
    /\ stream = << >>
    /\ EngineInit
    /\ arg_buffer \in Streams
    /\ FnIdle

CallFindSignature ==
    /\ ret_find = NotCalled
    /\ \E signature \in Signatures :
          /\ arg_signature' = signature
          /\ ret_find' = find_signature(arg_buffer, signature)
    /\ UNCHANGED <<engine, rerun, arg_buffer, ret_starts>>

CallFindAllStarts ==
    /\ ret_starts = NotCalled
    /\ ret_starts' = find_all_starts(arg_buffer)
    /\ UNCHANGED <<engine, rerun, arg_buffer, arg_signature, ret_find>>

NextFn ==
    \/ CallFindSignature
    \/ CallFindAllStarts

SpecFn == InitFn /\ [][NextFn]_vars

(***************************************************************************)
(* Vocabulary of the properties, stated on the bytes and not through the   *)
(* search functions above.                                                 *)
(***************************************************************************)
\* The indices at which sig occurs in buf, from index from on.
Occurrences(buf, sig, from) ==
    {i \in from..Len(buf) : WindowEq(buf, sig, i)}

\* The least element of a non-empty set of naturals.
Least(S) == CHOOSE i \in S : \A k \in S : i <= k

\* The indices at which a start signature of either format occurs.
StartOccurrences(buf, from) ==
    Occurrences(buf, JPEG_START, from) \cup Occurrences(buf, RW2_START, from)

\* The last n bytes of buf.
LastBytes(buf, n) == SubSeq(buf, Len(buf) - n + 1, Len(buf))

IsSuffix(t, buf) == Len(t) <= Len(buf) /\ t = LastBytes(buf, Len(t))

\* The file the step just taken handed to the sink.
Last(fs) == fs[Len(fs)]

\* The step appends one save_file call.
Emits == Len(files') = Len(files) + 1

(***************************************************************************)
(* C1.  A stream that is FF D8, a payload, FF D9 and is read without       *)
(* error, in whatever chunks, yields exactly one file: the whole stream,   *)
(* tagged Jpeg, with sequence number 0.                                    *)
(***************************************************************************)
JpegFramed(image) ==
    /\ Len(image) >= Len(JPEG_START) + Len(JPEG_END)
    /\ WindowEq(image, JPEG_START, 0)
    /\ WindowEq(image, JPEG_END, Len(image) - Len(JPEG_END))

WholeStreamAsJpeg ==
    Emitted(files) = <<[data |-> stream, file_type |-> "Jpeg", counter |-> 0]>>

\* C1 as stated: for any payload.
C1_AnyPayload ==
    (pc = "Done" /\ ~readErr /\ JpegFramed(stream)) => WholeStreamAsJpeg

\* The payload, the bytes between the two markers, holds no FF D9.
PayloadWithoutEnd(image) ==
    Occurrences(image, JPEG_END, Len(JPEG_START)) = {Len(image) - Len(JPEG_END)}

\* C1 as amended: for a payload in which FF D9 does not occur, the engine
\* emits exactly one file, the whole stream, tagged Jpeg.
C1_PayloadWithoutEnd ==
    (pc = "Done" /\ ~readErr /\ JpegFramed(stream) /\ PayloadWithoutEnd(stream))
        => WholeStreamAsJpeg

\* A framed stream with a payload, delivered in more than one chunk, is done.
C1_Witness ==
    /\ pc = "Done" /\ ~readErr /\ chunked
    /\ JpegFramed(stream) /\ PayloadWithoutEnd(stream)
    /\ Len(stream) > Len(JPEG_START) + Len(JPEG_END)
    /\ Len(files) = 1

(***************************************************************************)
(* C2.  Scanning a buffer whose earliest start signature is an Rw2 start,  *)
(* with a Jpeg start somewhere after its four bytes: the step emits an Rw2 *)
(* file that runs from the Rw2 start up to, not including, that Jpeg       *)
(* start, and the buffer then begins at the Jpeg start.                    *)
(***************************************************************************)
\* The buffer's earliest start signature is an Rw2 start, and FF D8 follows.
Rw2ThenJpeg(buf) ==
    /\ Occurrences(buf, RW2_START, 0) # {}
    /\ \A j \in Occurrences(buf, JPEG_START, 0) :
          Least(Occurrences(buf, RW2_START, 0)) < j
    /\ Occurrences(buf, JPEG_START, 0) # {}

Rw2At(buf) == Least(Occurrences(buf, RW2_START, 0))
JpegAfterRw2(buf) == Least(Occurrences(buf, JPEG_START, Rw2At(buf)))

Rw2CutAtJpeg ==
    /\ Emits
    /\ Last(files').file_type = "Rw2"
    /\ Last(files').data = Slice(buffer, Rw2At(buffer), JpegAfterRw2(buffer))
    /\ buffer' = split_off(buffer, JpegAfterRw2(buffer))
    /\ WindowEq(buffer', JPEG_START, 0)

\* C2 as stated: whatever the payload between the two markers.
C2_AnyPayload ==
    [][(pc = "Scanning" /\ Rw2ThenJpeg(buffer)) => Rw2CutAtJpeg]_vars

\* No second Rw2 start lies between the Rw2 start and the Jpeg start.
PayloadWithoutRw2(buf) ==
    \A i \in Occurrences(buf, RW2_START, 0) :
        i = Rw2At(buf) \/ i > JpegAfterRw2(buf)

\* C2 as amended: when the payload holds no Rw2 start signature, the emitted
\* Rw2 file runs from the Rw2 start up to the Jpeg start, where the buffer
\* then begins.
C2_PayloadWithoutRw2 ==
    [][(pc = "Scanning" /\ Rw2ThenJpeg(buffer) /\ PayloadWithoutRw2(buffer))
          => Rw2CutAtJpeg]_vars

\* An Rw2 file with a payload was cut at a Jpeg start.
C2_Witness ==
    /\ branch = "rw2_next"
    /\ files # << >>
    /\ Last(files).file_type = "Rw2"
    /\ Len(Last(files).data) > Len(RW2_START)
    /\ WindowEq(buffer, JPEG_START, 0)

(***************************************************************************)
(* C3.  Every file tagged Jpeg ends with FF D9; and when the scan is over  *)
(* with a Jpeg start still open in the buffer, no end marker follows it    *)
(* there and no emitted file holds any of the buffered bytes.              *)
(***************************************************************************)
EndsWithEndMarker(data) ==
    /\ Len(data) >= Len(JPEG_START) + Len(JPEG_END)
    /\ WindowEq(data, JPEG_END, Len(data) - Len(JPEG_END))

\* C3: every emitted Jpeg file ends with FF D9, and a Jpeg start still open
\* when the scan is over has produced no file and keeps its bytes unemitted.
C3_NoTruncatedJpeg ==
    /\ \A i \in 1..Len(files) :
          files[i].file_type = "Jpeg" => EndsWithEndMarker(files[i].data)
    /\ (pc = "Done" /\ Occurrences(buffer, JPEG_START, 0) # {}) =>
          /\ WindowEq(buffer, JPEG_START, 0)
          /\ Occurrences(buffer, JPEG_END, Len(JPEG_START)) = {}
          /\ \A i \in 1..Len(files) :
                files[i].offset + Len(files[i].data) <= Base

\* The stream ended after one Jpeg file, with a second Jpeg start open.
C3_Witness ==
    /\ pc = "Done" /\ ~readErr
    /\ WindowEq(buffer, JPEG_START, 0)
    /\ Len(buffer) > Len(JPEG_START)
    /\ Len(files) = 1
    /\ files[1].file_type = "Jpeg"

(***************************************************************************)
(* C4.  A Scanning step on a buffer with no start signature hands back to  *)
(* Reading the last bytes of that buffer, a bounded number of them.        *)
(***************************************************************************)
NoStart(buf) == StartOccurrences(buf, 0) = {}

C5_ReadErrorStops ==
    [][readErr' =>
          /\ pc' = "Done"
          /\ files' = files
          /\ counter' = counter
          /\ pos' = pos
          /\ buffer' = buffer]_vars

\* A read failed after a file was emitted, with unresolved bytes buffered.
C5_Witness ==
    /\ readErr /\ pc = "Done"
    /\ Len(files) >= 1
    /\ buffer # << >>
    /\ pos < Len(stream)

(***************************************************************************)
(* C6.  A write failure does not stop the scan: every save_file call,      *)
(* failed or not, is followed by counter + 1, by the buffer that starts    *)
(* right after the bytes handed over, and by more Scanning; and the        *)
(* sequence numbers and the file names of the calls are pairwise distinct. *)
(***************************************************************************)
DistinctNames(fs) ==
    \A i, j \in 1..Len(fs) :
        i # j => /\ fs[i].counter # fs[j].counter
                 /\ fs[i].name # fs[j].name

\* C6: every save_file call, whatever its outcome, uses the current counter,
\* is followed by counter + 1, the advanced buffer and more Scanning, and
\* no two calls share a sequence number or a file name.
C6_WriteFailureGoesOn ==
    [][/\ DistinctNames(files')
       /\ Emits =>
             /\ Last(files').counter = counter
             /\ counter' = counter + 1
             /\ pc' = "Scanning"
             /\ buffer' = split_off(buffer,
                    Last(files').offset - Base + Len(Last(files').data))]_vars

\* A file was emitted after the write of an earlier one had failed.
C6_Witness ==
    /\ Len(files) >= 2
    /\ ~files[1].written
    /\ files[2].counter = 1
    /\ files[1].name # files[2].name

(***************************************************************************)
(* C7.  Two scans of the same image, each read in chunks of its own        *)
(* choosing and without error, emit the same files: same bytes, same       *)
(* format tags, same sequence numbers, in the same order.                  *)
(***************************************************************************)
BothScansDone == run = 2 /\ pc = "Done" /\ ~readErr

\* C7 as stated: for any image.
C7_AnyImage == BothScansDone => Emitted(files) = prevFiles

NoRw2File(fs) == \A i \in 1..Len(fs) : fs[i].file_type # "Rw2"

\* C7 as amended: two scans of the same image in which no Rw2-tagged file
\* is emitted emit identical sequences of files, however the two runs split
\* the image into chunks.
C7_NoRw2Emitted ==
    (BothScansDone /\ NoRw2File(files) /\ NoRw2File(prevFiles))
        => Emitted(files) = prevFiles

\* Two scans that split the image differently both emitted a Jpeg file
\* from an image that holds an Rw2 start signature.
C7_Witness ==
    /\ BothScansDone
    /\ chunked # prevChunked
    /\ NoRw2File(files) /\ NoRw2File(prevFiles)
    /\ Len(files) >= 1
    /\ Occurrences(stream, RW2_START, 0) # {}

(***************************************************************************)
(* C8.  For an image read without error the streaming engine (main.rs)     *)
(* emits what the read-everything-then-scan engine (main2.rs) emits.       *)
(***************************************************************************)
\* C8: at Done after an error-free read, the files of main.rs are those
\* main2.rs emits for the same image.
C8_SameAsMain2 ==
    (pc = "Done" /\ ~readErr) => Emitted(files) = main2(stream)

(***************************************************************************)
(* C9.  find_signature returns the lowest index at which the pattern       *)
(* occurs in the buffer, and not-found when it occurs nowhere, an empty    *)
(* or too short buffer included.                                           *)
(***************************************************************************)
\* C9: find_signature returns Some(lowest index of an occurrence), or None
\* when there is no occurrence.
C9_LowestIndex ==
    ret_find # NotCalled =>
        LET hits == Occurrences(arg_buffer, arg_signature, 0)
        IN  /\ hits = {} => ret_find = None
            /\ hits # {} => ret_find = Some(Least(hits))
            /\ Len(arg_buffer) < Len(arg_signature) => ret_find = None

\* The pattern occurs twice, the first time after index 0.
C9_Witness ==
    /\ ret_find # NotCalled
    /\ ret_find # None
    /\ ret_find[1] > 0
    /\ Cardinality(Occurrences(arg_buffer, arg_signature, 0)) >= 2

(***************************************************************************)
(* C10.  find_all_starts returns at most one candidate per format, each    *)
(* at the lowest index of its start signature, in strictly ascending order *)
(* of position; it is empty exactly when neither signature occurs, and its *)
(* first element is the earliest start signature of either format.         *)
(***************************************************************************)
\* C10: find_all_starts returns the lowest occurrence of each format that
\* occurs, strictly ascending, the earliest start signature first.
C10_Candidates ==
    ret_starts # NotCalled =>
        LET jpeg == Occurrences(arg_buffer, JPEG_START, 0)
            rw2 == Occurrences(arg_buffer, RW2_START, 0)
            expected ==
                (IF jpeg # {} THEN {<<Least(jpeg), "Jpeg">>} ELSE {})
                \cup (IF rw2 # {} THEN {<<Least(rw2), "Rw2">>} ELSE {})
        IN  /\ {ret_starts[i] : i \in 1..Len(ret_starts)} = expected
            /\ Len(ret_starts) = Cardinality(expected)
            /\ \A i \in 1..(Len(ret_starts) - 1) :
                  ret_starts[i][1] < ret_starts[i + 1][1]
            /\ ret_starts = << >> <=> StartOccurrences(arg_buffer, 0) = {}
            /\ ret_starts # << >> =>
                  ret_starts[1][1] = Least(StartOccurrences(arg_buffer, 0))

\* Both signatures occur, the Rw2 start first, and a second Jpeg start later.
C10_Witness ==
    /\ ret_starts # NotCalled
    /\ Len(ret_starts) = 2
    /\ ret_starts[1][2] = "Rw2"
    /\ ret_starts[1][1] > 0

(***************************************************************************)
(* C11.  For an empty image the first read returns zero bytes; the engine  *)
(* is Done with no file emitted and a count of 0.                          *)
(***************************************************************************)
\* C11: the scan of an empty image ends with no save_file call and the
\* counter, which is the count reported, at 0.
C11_EmptyStream ==
    (pc = "Done" /\ ~readErr /\ stream = << >>) =>
        /\ files = << >>
        /\ counter = 0
        /\ pos = 0

\* The first read of an empty image returned Ok(0).
C11_Witness ==
    /\ pc = "Done" /\ ~readErr
    /\ stream = << >>
    /\ branch = "eof"

(***************************************************************************)
(* C12.  Whenever the engine is about to read, and when it is Done, the    *)
(* buffer either holds no start signature, or begins with a Jpeg start     *)
(* marker that no end marker follows: nothing resolvable is left in it.    *)
(***************************************************************************)
OpenJpegAtFront(buf) ==
    /\ WindowEq(buf, JPEG_START, 0)
    /\ Occurrences(buf, JPEG_END, Len(JPEG_START)) = {}

\* C12: at Reading and at Done the buffer has no start signature of either
\* format, or starts with FF D8 and has no FF D9 at any index >= 2.
C12_NothingResolvableLeft ==
    pc \in {"Reading", "Done"} => (NoStart(buffer) \/ OpenJpegAtFront(buffer))

\* After a first file, an open Jpeg that holds an Rw2 start waits for data.
C12_Witness ==
    /\ pc = "Reading"
    /\ OpenJpegAtFront(buffer)
    /\ Occurrences(buffer, RW2_START, 0) # {}
    /\ Len(files) >= 1

(***************************************************************************)
(* C13.  No start signature is lost at a chunk boundary when a Scanning    *)
(* pass ends without a candidate: a start signature of which only the      *)
(* first bytes have been read keeps those bytes in the buffer, and once it *)
(* has arrived in full the scan has a candidate at or before it.           *)
(***************************************************************************)
\* Where the last emitted file ends in the image (0 when there is none).
Frontier ==
    IF files = << >> THEN 0
    ELSE Last(files).offset + Len(Last(files).data)

\* The offsets, from from on, of the start signatures of the image of which
\* some bytes, but not all, have been read.
StraddlingStarts(from) ==
    {o \in from..(pos - 1) :
        \/ WindowEq(stream, JPEG_START, o) /\ pos < o + Len(JPEG_START)
        \/ WindowEq(stream, RW2_START, o) /\ pos < o + Len(RW2_START)}

\* The offsets, from the frontier on, of the start signatures of the image
\* that have arrived in full.
ArrivedStarts ==
    {o \in StartOccurrences(stream, Frontier) :
        \/ WindowEq(stream, JPEG_START, o) /\ o + Len(JPEG_START) <= pos
        \/ WindowEq(stream, RW2_START, o) /\ o + Len(RW2_START) <= pos}

\* C13 as stated: after a pass that ended without a candidate, every start
\* signature that straddles the read position has its first bytes buffered.
C13_AnyStraddlingStart ==
    (pc = "Reading" /\ branch = "none") =>
        \A o \in StraddlingStarts(0) : Base <= o

\* C13 as amended: a start signature whose first bytes were not emitted as
\* the end of a flushed Rw2 file (it begins at or after the end of the last
\* emitted file) keeps its first bytes in the buffer when a pass ends
\* without a candidate, and once it has arrived in full every Scanning step
\* has it in the buffer and finds a candidate at or before it.
C13_NoStartLost ==
    /\ (pc = "Reading" /\ branch = "none") =>
          \A o \in StraddlingStarts(Frontier) : Base <= o
    /\ pc = "Scanning" =>
          \A o \in ArrivedStarts :
              /\ Base <= o
              /\ o - Base \in StartOccurrences(buffer, 0)
              /\ candidates # << >>
              /\ candidates[1][1] <= o - Base

\* A buffer cut to its last four bytes held the first bytes of an Rw2 start
\* signature, which the next read has completed.
C13_Witness ==
    /\ pc = "Scanning" /\ branch = "read"
    /\ files = << >>
    /\ Base > 0
    /\ ~WindowEq(buffer, JPEG_START, 0)
    /\ \E i \in 1..3 : /\ WindowEq(buffer, RW2_START, i)
                       /\ Len(buffer) = i + Len(RW2_START)
    /\ Base + 1 \in ArrivedStarts \/ Base + 2 \in ArrivedStarts
           \/ Base + 3 \in ArrivedStarts

(***************************************************************************)
(* C14.  The Scanning step on a buffer whose earliest start signature is a *)
(* Jpeg start at index s.  With e the lowest index >= s + 2 at which FF D9 *)
(* occurs: the step emits buffer[s .. e + 2) as a Jpeg, adds one to the    *)
(* counter, leaves the bytes from e + 2 on and goes on Scanning.  Without  *)
(* such an e: it emits nothing, leaves the bytes from s on and goes back   *)
(* to Reading.                                                             *)
(***************************************************************************)
\* The buffer's earliest start signature is a Jpeg start.
JpegFirst(buf) ==
    /\ Occurrences(buf, JPEG_START, 0) # {}
    /\ \A r \in Occurrences(buf, RW2_START, 0) :
          Least(Occurrences(buf, JPEG_START, 0)) < r

JpegAt(buf) == Least(Occurrences(buf, JPEG_START, 0))

\* The end markers from index s + 2 on.
EndsAfter(buf) == Occurrences(buf, JPEG_END, JpegAt(buf) + 2)

\* C14: with a Jpeg start as active candidate, the step emits the bytes from
\* the start marker through the first end marker at or after s + 2 and goes
\* on Scanning behind it, or, without an end marker, emits nothing and
\* returns to Reading with the buffer cut to the start marker.
C14_JpegStep ==
    [][(pc = "Scanning" /\ JpegFirst(buffer)) =>
          IF EndsAfter(buffer) # {}
          THEN /\ Emits
               /\ Last(files').file_type = "Jpeg"
               /\ Last(files').data =
                     Slice(buffer, JpegAt(buffer), Least(EndsAfter(buffer)) + 2)
               /\ counter' = counter + 1
               /\ buffer' = split_off(buffer, Least(EndsAfter(buffer)) + 2)
               /\ pc' = "Scanning"
          ELSE /\ files' = files
               /\ counter' = counter
               /\ buffer' = split_off(buffer, JpegAt(buffer))
               /\ pc' = "Reading"]_vars

\* A Jpeg that began after the first byte of the image was emitted from a
\* chunked read, with bytes left behind it in the buffer.
C14_Witness ==
    /\ branch = "jpeg_found"
    /\ pc = "Scanning"
    /\ Len(files) = 1
    /\ files[1].offset > 0
    /\ buffer # << >>
    /\ chunked

(***************************************************************************)
(* C15.  The Scanning step on a buffer whose earliest start signature is   *)
(* an Rw2 start at index s, with no start signature from s + 4 on: the     *)
(* step emits all bytes from s to the end of the buffer as an Rw2, adds    *)
(* one to the counter and empties the buffer, whether or not the image has *)
(* more bytes; the empty buffer then goes back to Reading as it is.        *)
(***************************************************************************)
\* The buffer's earliest start signature is an Rw2 start.
Rw2First(buf) ==
    /\ Occurrences(buf, RW2_START, 0) # {}
    /\ \A j \in Occurrences(buf, JPEG_START, 0) : Rw2At(buf) < j

\* C15: an Rw2 candidate with no later start signature in the buffer is
\* emitted up to the current end of the buffer, at once, the counter is
\* incremented and the buffer is empty when the engine returns to Reading.
C15_Rw2Flush ==
    [][/\ (pc = "Scanning" /\ Rw2First(buffer)
              /\ StartOccurrences(buffer, Rw2At(buffer) + 4) = {}) =>
             /\ Emits
             /\ Last(files').file_type = "Rw2"
             /\ Last(files').data = split_off(buffer, Rw2At(buffer))
             /\ counter' = counter + 1
             /\ buffer' = << >>
             /\ pos' = pos
       /\ (pc = "Scanning" /\ branch = "rw2_flush") =>
             /\ buffer = << >>
             /\ buffer' = << >>
             /\ pc' = "Reading"
             /\ files' = files]_vars

\* A flushed Rw2 file sent the engine back to Reading in mid-stream.
C15_Witness ==
    /\ pc = "Reading" /\ branch = "none"
    /\ buffer = << >>
    /\ files # << >>
    /\ Last(files).file_type = "Rw2"
    /\ Last(files).offset + Len(Last(files).data) = pos
    /\ Last(files).offset > 0
    /\ pos < Len(stream)

(***************************************************************************)
(* C16.  Every scan of a finite image ends: each iteration of the inner    *)
(* loop either leaves the loop or emits a file and takes at least four     *)
(* bytes off the front of the buffer, each read adds bytes, signals the    *)
(* end of the image or fails, and so the engine reaches Done.              *)
(***************************************************************************)
\* C16: the engine eventually reaches Done; an iteration of the inner loop
\* leaves the loop or emits a file and shortens the buffer by four bytes or
\* more; a read appends at least one byte and moves on in the image, or
\* ends the scan.
C16_Terminates ==
    /\ <>(pc = "Done")
    /\ [][/\ pc = "Scanning" =>
                \/ pc' = "Reading"
                \/ /\ pc' = "Scanning"
                   /\ Emits
                   /\ Len(buffer') + 4 <= Len(buffer)
                   /\ IsSuffix(buffer', buffer)
          /\ pc = "Reading" =>
                \/ pc' = "Done"
                \/ /\ pc' = "Scanning"
                   /\ pos' > pos
                   /\ Len(buffer') = Len(buffer) + (pos' - pos)]_vars

\* A scan that read in chunks and emitted two files is Done.
C16_Witness ==
    /\ pc = "Done" /\ ~readErr
    /\ chunked
    /\ Len(files) >= 2
    /\ pos = Len(stream)

(***************************************************************************)
(* The emitted files as pieces of the image: each is the image's bytes     *)
(* from its offset on, they follow one another without overlap, and they   *)
(* are numbered 0, 1, 2, ... in the order of the save_file calls.          *)
(***************************************************************************)
EndOffset(f) == f.offset + Len(f.data)

\* C17: every emitted file is a contiguous slice of the image; the slices
\* of different files do not overlap and lie at strictly increasing
\* offsets; the k-th file (k from 0) has sequence number k, and the counter
\* equals the number of save_file calls.
C17_SlicesInOrder ==
    /\ \A i \in 1..Len(files) :
          /\ EndOffset(files[i]) <= Len(stream)
          /\ files[i].data = Slice(stream, files[i].offset, EndOffset(files[i]))
          /\ files[i].counter = i - 1
    /\ \A i \in 1..(Len(files) - 1) :
          /\ files[i].offset < files[i + 1].offset
          /\ EndOffset(files[i]) <= files[i + 1].offset
    /\ counter = Len(files)

\* Two files, the second at a distance from the end of the first, found in an
\* image read in chunks, one of them not persisted.
C17_Witness ==
    /\ pc = "Done"
    /\ chunked
    /\ Len(files) >= 2
    /\ EndOffset(files[1]) < files[2].offset
    /\ \E i \in 1..Len(files) : ~files[i].written

(***************************************************************************)
(* Images without an Rw2 start signature.  Only Jpeg candidates are found  *)
(* in them, an open Jpeg waits in the buffer for its end marker, and the   *)
(* reads' sizes do not show in what is emitted: it is what one Scanning    *)
(* pass over the whole image emits.                                        *)
(***************************************************************************)
NoRw2Start == Occurrences(stream, RW2_START, 0) = {}

\* C18: for an image without an Rw2 start signature, read to its end
\* without a read error, the emitted files are the same however the image
\* is split into chunks: they are the files of a scan that gets the whole
\* image in one chunk.
C18_AsSingleChunk ==
    (pc = "Done" /\ ~readErr /\ NoRw2Start)
        => Emitted(files) = ScanPass(stream, 0)

\* An image without an Rw2 start signature, read in several chunks, with
\* two files emitted.
C18_Witness ==
    /\ pc = "Done" /\ ~readErr
    /\ NoRw2Start
    /\ chunked
    /\ Len(files) >= 2

(***************************************************************************)
(* The shape of an emitted file: it starts with the signature of its       *)
(* format, an Rw2 file stops before the next start signature, and a Jpeg   *)
(* file stops with the first end marker after its start marker.            *)
(***************************************************************************)
StartOf(ft) == IF ft = "Jpeg" THEN JPEG_START ELSE RW2_START

\* C19: every emitted file begins with the start signature of its format
\* tag and has at least 4 bytes; an Rw2 file holds no complete start
\* signature of either format except the one at its offset 0; a Jpeg file
\* holds no FF D9 at an offset from 2 on other than in its last two bytes.
C19_FileShape ==
    \A i \in 1..Len(files) :
        LET f == files[i]
        IN  /\ f.file_type \in {"Jpeg", "Rw2"}
            /\ Len(f.data) >= 4
            /\ WindowEq(f.data, StartOf(f.file_type), 0)
            /\ f.file_type = "Rw2" => StartOccurrences(f.data, 1) = {}
            /\ f.file_type = "Jpeg" =>
                   Occurrences(f.data, JPEG_END, 2) \subseteq {Len(f.data) - 2}

\* An Rw2 file of more than 4 bytes and a Jpeg file have been emitted.
C19_Witness ==
    /\ \E i \in 1..Len(files) :
          files[i].file_type = "Rw2" /\ Len(files[i].data) > 4
    /\ \E i \in 1..Len(files) : files[i].file_type = "Jpeg"

====
